---- MODULE Spec2Model ----
(***************************************************************************)
(* Model of the Instagram downloader bot (src/main.py).                    *)
(*                                                                         *)
(* State: the admin file, the user log file, the temp files on disk, the   *)
(* wall clock, and one record per handler invocation (a coroutine of the   *)
(* event loop).  A handler runs without interruption from one await to the *)
(* next, so every action is "the awaited call returns (or raises) and the  *)
(* coroutine runs on to its next await".  The media lookup and the media   *)
(* download are calls without await: they hold the event loop's thread     *)
(* until they return.  The session file, its lock and the threads calling  *)
(* load_or_create_session are the rest of the state.                       *)
(*                                                                         *)
(* Texts are sequences of one-character strings, and the two regular       *)
(* expressions of the URL resolver are matched character by character.     *)
(***************************************************************************)
EXTENDS Integers, Sequences, FiniteSets, TLC

(***************************************************************************)
(* Bounds of the model.                                                    *)
(***************************************************************************)
\* at most this many updates are dispatched to handlers in one behaviour
MaxUpdates == 3
\* the clock runs from 0 to MaxTime
MaxTime == 2
\* clock ticks per calendar day
DayLen == 2

(***************************************************************************)
(* Character data.                                                         *)
(***************************************************************************)
HTTP == <<"h", "t", "t", "p">>
SCHEME_SEP == <<":", "/", "/">>
WWW == <<"w", "w", "w">>
INSTAGRAM == <<"i", "n", "s", "t", "a", "g", "r", "a", "m">>
COM_SLASH == <<"c", "o", "m", "/">>
VIDEO == <<"v", "i", "d", "e", "o">>
TEMP_ == <<"t", "e", "m", "p", "_">>
DOT_MP4 == <<".", "m", "p", "4">>
DOT_JPG == <<".", "j", "p", "g">>
BACKSLASH == "\\"
\* the alternation (p|reel|tv), in the order the pattern lists it
MediaKinds == << <<"p">>, <<"r", "e", "e", "l">>, <<"t", "v">> >>
\* the characters the class [^/?#&] excludes
Separators == {"/", "?", "#", "&"}
\* the characters str.strip() removes
Whitespace == {" ", "\n", "\t"}

\* None, for identifiers and names
None == "None"
\* None, for texts: a falsy value, as None and "" both are in `if not media_url`
NoText == <<>>
\* a file is <<>> while os.path.exists(...) is false, else <<its content>>
NoFile == <<>>

(***************************************************************************)
(* Text helpers.                                                           *)
(***************************************************************************)
\* s has the literal lit at position i
LitAt(s, i, lit) ==
    /\ i >= 1
    /\ i + Len(lit) - 1 <= Len(s)
    /\ \A k \in 1..Len(lit) : s[i + k - 1] = lit[k]

\* the positions after the literal lit, matched from a position of P
AfterLit(P, s, lit) == {i + Len(lit) : i \in {j \in P : LitAt(s, j, lit)}}

\* the positions after one character matched by '.', from a position of P
AfterDot(P, s) == {i + 1 : i \in {j \in P : j <= Len(s) /\ s[j] # "\n"}}

\* the positions after one of the alternatives (p|reel|tv)
AfterKind(P, s) == UNION {AfterLit(P, s, MediaKinds[k]) : k \in DOMAIN MediaKinds}

\* `sub in s`
Contains(s, sub) == \E i \in 1..(Len(s) + 1) : LitAt(s, i, sub)

\* s.endswith(suffix)
EndsWith(s, suffix) == LitAt(s, Len(s) - Len(suffix) + 1, suffix)

\* s.strip()
strip(s) ==
    LET keep == {i \in 1..Len(s) : s[i] \notin Whitespace}
    IN  IF keep = {} THEN <<>>
        ELSE LET lo == CHOOSE i \in keep : \A j \in keep : i <= j
                 hi == CHOOSE i \in keep : \A j \in keep : j <= i
             IN  SubSeq(s, lo, hi)

(***************************************************************************)
(* URL resolver.                                                           *)
(***************************************************************************)
\* the pattern  instagram\\.com/  as the regex engine reads it: the word
\* instagram, a backslash, any one character, then com/
HostFrom(P, s) ==
    AfterLit(AfterDot(AfterLit(AfterLit(P, s, INSTAGRAM), s, <<BACKSLASH>>), s), s, COM_SLASH)

\* the optional group  (www\\.)?
OptWwwFrom(P, s) == P \cup AfterDot(AfterLit(AfterLit(P, s, WWW), s, <<BACKSLASH>>), s)

\* re.match(r"https?://(www\\.)?instagram\\.com/(p|reel|tv)/", url)
is_valid_instagram_url(url) ==
    LET p1 == AfterLit({1}, url, HTTP)
        p2 == p1 \cup AfterLit(p1, url, <<"s">>)
        p3 == AfterLit(p2, url, SCHEME_SEP)
        p4 == OptWwwFrom(p3, url)
        p5 == HostFrom(p4, url)
        p6 == AfterKind(p5, url)
        p7 == AfterLit(p6, url, <<"/">>)
    IN  p7 # {}

\* where group 1 starts when the pattern of extract_shortcode matches from i
IdStarts(s, i) ==
    {q \in AfterLit(AfterKind(HostFrom({i}, s), s), s, <<"/">>) :
        q <= Len(s) /\ s[q] \notin Separators}

\* the greedy run [^/?#&]+ from q
IdRun(s, q) ==
    LET stops == {j \in q..Len(s) : s[j] \in Separators}
        hi == IF stops = {} THEN Len(s)
              ELSE (CHOOSE j \in stops : \A k \in stops : j <= k) - 1
    IN  SubSeq(s, q, hi)

\* re.search(r"instagram\\.com/(?:p|reel|tv)/([^/?#&]+)", ...).group(1), or None
extract_shortcode(instagram_post) ==
    LET starts == {i \in 1..Len(instagram_post) : IdStarts(instagram_post, i) # {}}
    IN  IF starts = {} THEN NoText
        ELSE LET i == CHOOSE a \in starts : \A b \in starts : a <= b
                 q == CHOOSE a \in IdStarts(instagram_post, i) :
                          \A b \in IdStarts(instagram_post, i) : a <= b
             IN  IdRun(instagram_post, q)

(***************************************************************************)
(* Inputs: message texts, provider answers, users, chats.                  *)
(***************************************************************************)
\* "https://www.instagram.com/reel/Cx1234/"
UrlReel == <<"h", "t", "t", "p", "s", ":", "/", "/", "w", "w", "w", ".", "i", "n", "s", "t", "a", "g", "r", "a", "m", ".", "c", "o", "m", "/", "r", "e", "e", "l", "/", "C", "x", "1", "2", "3", "4", "/">>
\* "http://instagram.com/p/ABC?x"
UrlPost == <<"h", "t", "t", "p", ":", "/", "/", "i", "n", "s", "t", "a", "g", "r", "a", "m", ".", "c", "o", "m", "/", "p", "/", "A", "B", "C", "?", "x">>
\* "https://instagram\.com/p/ABC"  (a backslash before the dot)
UrlEscPost == <<"h", "t", "t", "p", "s", ":", "/", "/", "i", "n", "s", "t", "a", "g", "r", "a", "m", "\\", ".", "c", "o", "m", "/", "p", "/", "A", "B", "C">>
\* " http://www\.instagram\.com/tv/Q1#t "  (padded with spaces)
UrlEscTv == <<" ", "h", "t", "t", "p", ":", "/", "/", "w", "w", "w", "\\", ".", "i", "n", "s", "t", "a", "g", "r", "a", "m", "\\", ".", "c", "o", "m", "/", "t", "v", "/", "Q", "1", "#", "t", " ">>
\* "https://instagram\.com/p/"  (no identifier after the path segment)
UrlEscNoId == <<"h", "t", "t", "p", "s", ":", "/", "/", "i", "n", "s", "t", "a", "g", "r", "a", "m", "\\", ".", "c", "o", "m", "/", "p", "/">>
\* "not a url"
NotAUrl == <<"n", "o", "t", " ", "a", " ", "u", "r", "l">>


\* "cdn/video/a.mp4", "cdn/a.jpg", "cdn/v/a.mp4"
VideoUrl == <<"c", "d", "n", "/", "v", "i", "d", "e", "o", "/", "a", ".", "m", "p", "4">>
ImageUrl == <<"c", "d", "n", "/", "a", ".", "j", "p", "g">>
PlainMp4 == <<"c", "d", "n", "/", "v", "/", "a", ".", "m", "p", "4">>

\* what Post.from_shortcode gives for a request: it raises (private, deleted,
\* provider error), or it is a post with is_video, video_url and url

VideoPost == [raises |-> FALSE, is_video |-> TRUE,  video_url |-> VideoUrl, url |-> ImageUrl]
PlainPost == [raises |-> FALSE, is_video |-> TRUE,  video_url |-> PlainMp4, url |-> ImageUrl]
ImagePost == [raises |-> FALSE, is_video |-> FALSE, video_url |-> NoText,   url |-> ImageUrl]
NoPost    == [raises |-> TRUE,  is_video |-> FALSE, video_url |-> NoText,   url |-> NoText]

\* the download requests: a message text, and what the provider holds for it
Requests ==
    { [text |-> UrlReel,    post |-> VideoPost],
      [text |-> UrlPost,    post |-> ImagePost],
      [text |-> NotAUrl,    post |-> NoPost],
      [text |-> UrlEscPost, post |-> VideoPost],
      [text |-> UrlEscPost, post |-> PlainPost],
      [text |-> UrlEscPost, post |-> NoPost],
      [text |-> UrlEscTv,   post |-> ImagePost],
      [text |-> UrlEscNoId, post |-> VideoPost] }

\* update.effective_user: the same user may come back under another username
EffectiveUsers ==
    { [id |-> "u1", username |-> None,  first_name |-> "Ann"],
      [id |-> "u1", username |-> "ann", first_name |-> "Anna"],
      [id |-> "u2", username |-> "bob", first_name |-> "Bob"] }

UserIds == {u.id : u \in EffectiveUsers}

\* update.message.chat_id, as the f-string prints it
ChatIds == {<<"7">>, <<"8">>}

\* how a call on a file may end
IoOutcomes == {"ok", "read_error", "write_error"}
\* how requests.get and the streaming of its body may end
GetOutcomes == {"ok", "get_error", "stream_error"}

(***************************************************************************)
(* Clock and timestamps.                                                   *)
(***************************************************************************)
\* strftime("%Y-%m-%d %H:%M:%S") of the clock: a date part and a time part
strftime(t) == <<t \div DayLen, t % DayLen>>
\* datetime.strptime(ts, "%Y-%m-%d %H:%M:%S")
strptime(ts) == ts[1] * DayLen + ts[2]
\* datetime.date()
date(t) == t \div DayLen

(***************************************************************************)
(* Admin registry.                                                         *)
(***************************************************************************)
\* get_admin that finds no admin whatever the file holds
get_admin_unset(file) == None

\* get_admin: the stored identifier, or None without the file
get_admin(file) == IF file # NoFile THEN file[1].admin_id ELSE None

\* set_admin without the os.path.exists test
set_admin_overwrite(file, user_id) == <<[admin_id |-> user_id]>>

set_admin(file, user_id) == IF file = NoFile THEN <<[admin_id |-> user_id]>> ELSE file

(***************************************************************************)
(* User activity log.                                                      *)
(***************************************************************************)
\* the permission test of list_users with "no admin stored" let through
denied_when_admin_set(user_id, file) ==
    get_admin(file) # None /\ user_id # get_admin(file)

\* user.id != get_admin(): list_users refuses the caller
denied(user_id, file) == user_id # get_admin(file)

\* the for / else of log_user_data with a loop that leaves the record it
\* finds as it is
record_user_kept(users, user_data) ==
    IF \E i \in DOMAIN users : users[i].user_id = user_data.user_id
    THEN users
    ELSE Append(users, user_data)

\* the for / else of log_user_data without the loop: the record is appended
record_user_appended(users, user_data) == Append(users, user_data)

\* the loop of log_user_data replacing the whole record, not only its timestamp
record_user_replace(users, user_data) ==
    LET hits == {i \in DOMAIN users : users[i].user_id = user_data.user_id}
    IN  IF hits # {}
        THEN LET i == CHOOSE a \in hits : \A b \in hits : a <= b
             IN  [users EXCEPT ![i] = user_data]
        ELSE Append(users, user_data)

\* the for/else of log_user_data: refresh the first record of the user, or append
record_user(users, user_data) ==
    LET hits == {i \in DOMAIN users : users[i].user_id = user_data.user_id}
    IN  IF hits # {}
        THEN LET i == CHOOSE a \in hits : \A b \in hits : a <= b
             IN  [users EXCEPT ![i].timestamp = user_data.timestamp]
        ELSE Append(users, user_data)

\* log_user_data that never loads the file it is about to rewrite
log_user_data_fresh(file, user, t, io) ==
    IF (file # NoFile /\ io = "read_error") \/ io = "write_error" THEN file
    ELSE << <<[user_id |-> user.id, username |-> user.username,
               first_name |-> user.first_name, timestamp |-> <<t \div DayLen, t % DayLen>>]>> >>

\* the file after log_user_data(user) at clock t; io says whether the read or
\* the write raises (the exception is caught, and the file stays as it was)
log_user_data(file, user, t, io) ==
    LET user_data == [user_id |-> user.id, username |-> user.username,
                      first_name |-> user.first_name, timestamp |-> strftime(t)]
    IN  IF file # NoFile /\ io = "read_error" THEN file
        ELSE IF io = "write_error" THEN file
        ELSE <<record_user(IF file # NoFile THEN file[1] ELSE <<>>, user_data)>>

\* a summary whose today is the date of a clock one tick behind the bot's timezone
users_summary_behind(users, t) ==
    [ total |-> Len(users),
      today |-> Cardinality({i \in DOMAIN users :
                                (users[i].timestamp[1] * DayLen + users[i].timestamp[2]) \div DayLen
                                    = (t - 1) \div DayLen}),
      lines |-> [i \in DOMAIN users |->
                    [user_id |-> users[i].user_id,
                     username |-> IF users[i].username = None THEN "N/A" ELSE users[i].username,
                     first_name |-> users[i].first_name,
                     last_active |-> users[i].timestamp]] ]

\* the summary list_users builds from the log at clock t
users_summary(users, t) ==
    [ total |-> Len(users),
      today |-> Cardinality({i \in DOMAIN users : date(strptime(users[i].timestamp)) = date(t)}),
      lines |-> [i \in DOMAIN users |->
                    [user_id |-> users[i].user_id,
                     username |-> IF users[i].username = None THEN "N/A" ELSE users[i].username,
                     first_name |-> users[i].first_name,
                     last_active |-> users[i].timestamp]] ]

(***************************************************************************)
(* Media lookup and temp file.                                             *)
(***************************************************************************)
\* fetch_instagram_data without the `if not shortcode` guard
fetch_unguarded(instagram_post, post) ==
    IF post.raises THEN NoText
    ELSE IF post.is_video THEN post.video_url ELSE post.url

\* fetch_instagram_data: None without an identifier or when the lookup raises
fetch_instagram_data(instagram_post, post) ==
    IF extract_shortcode(instagram_post) = NoText THEN NoText
    ELSE IF post.raises THEN NoText
    ELSE IF post.is_video THEN post.video_url ELSE post.url

\* f"temp_{chat_id}.mp4" if "video" in media_url else f"temp_{chat_id}.jpg"
file_name(chat_id, media_url) ==
    TEMP_ \o chat_id \o (IF Contains(media_url, VIDEO) THEN DOT_MP4 ELSE DOT_JPG)

\* the upload the handler picks: reply_video for a name ending in .mp4
upload_kind(name) == IF EndsWith(name, DOT_MP4) THEN "video" ELSE "photo"

\* a handler without the finally clause
cleanup_skipped(files, name) == files

\* the finally clause: remove the temp file if it exists
cleanup(files, name) == files \ {name}

(***************************************************************************)
(* State.                                                                  *)
(***************************************************************************)
VARIABLES
    admin_file,     \* admin.json: NoFile, or <<[admin_id |-> id]>>
    users_log,      \* users.log: NoFile, or <<the JSON list of user records>>
    temp_files,     \* the temp files that exist, by name
    now,            \* the wall clock in the bot's timezone
    tasks,          \* the handler invocations
    updates,        \* how many updates were dispatched so far
    history,        \* history of the calls made: see NoHistory
    session_lock,   \* session_lock: None, or the thread that holds it
    session_file,   \* the session file: NoFile, or <<the session saved>>
    loader,         \* the session the loader holds: None, or its name
    threads,        \* where each thread is in load_or_create_session
    calls           \* history of the session calls made: see NoCalls

bot_vars == <<admin_file, users_log, temp_files, now, tasks, updates, history>>
session_vars == <<session_lock, session_file, loader, threads, calls>>
vars == <<admin_file, users_log, temp_files, now, tasks, updates, history,
          session_lock, session_file, loader, threads, calls>>

\* the coroutines the event loop may hold at one time
Tasks == {"t1", "t2"}
SlotNo(t) == IF t = "t1" THEN 1 ELSE 2

\* a slot that holds no invocation
Idle ==
    [ handler |-> "none", pc |-> "idle", user |-> None, chat_id |-> NoText,
      text |-> NoText, post |-> NoPost,
      valid |-> FALSE,        \* what is_valid_instagram_url returned
      fetched |-> FALSE,      \* fetch_instagram_data was called
      media_url |-> NoText,   \* what it returned
      got |-> FALSE,          \* requests.get was called
      made_file |-> FALSE,    \* the temp file was opened for writing
      upload_call |-> "none", \* the upload that was started: video or photo
      uploaded |-> "none",    \* the upload that succeeded
      progress |-> "none",    \* the progress message: fetching, fetch_failed,
                              \* send_failed, deleted
      last_edit |-> "none",   \* the text of the last edit_text call made
      replies |-> {},         \* the replies that were delivered
      log_read |-> FALSE,     \* list_users opened the log
      listing |-> [total |-> 0, today |-> 0, lines |-> <<>>],
                              \* the summary list_users built
      raised |-> FALSE,       \* an exception left the handler
      temp_left |-> FALSE ]   \* its temp file existed when the handler ended

NoHistory ==
    [ first_admin |-> None,     \* the identifier the first writing set_admin stored
      last_set_admin |-> None,  \* the argument of the latest set_admin call
      recorded |-> {},          \* the users whose log_user_data ended without I/O error
      confirmed |-> <<>>,       \* the users the admin confirmation was delivered to
      stamps |-> [id \in UserIds |-> <<>>] ]
                                \* the timestamp of each user's latest log_user_data
                                \* that ended without I/O error

\* the threads that may call load_or_create_session
Callers == {"c1", "c2", "c3"}

\* the statements of load_or_create_session a thread can be at, from the
\* with statement to the release of the lock
InLock == {"exists", "load", "login", "save", "release"}

NoCalls ==
    [ taken |-> <<>>,     \* the threads that took session_lock, in order
      logins |-> <<>>,    \* the threads that called loader.login
      saves |-> <<>>,     \* the threads that called save_session_to_file
      loads |-> <<>> ]    \* the threads that called load_session_from_file

\* the state once the module is imported: no bot file yet, and the session
\* established by the module's own load_or_create_session() call
Init ==
    /\ admin_file = NoFile
    /\ users_log = NoFile
    /\ temp_files = {}
    /\ now = 0
    /\ tasks = [t \in Tasks |-> Idle]
    /\ updates = 0
    /\ history = NoHistory
    /\ session_lock = None
    /\ session_file = <<"startup">>
    /\ loader = "startup"
    /\ threads = [c \in Callers |-> "idle"]
    /\ calls = NoCalls

\* the slots that hold no invocation
FreeSlots == {t \in Tasks : tasks[t].pc = "idle"}

\* an update can be dispatched into slot t: the event loop takes the first
\* free slot (the slots are interchangeable)
Free(t) ==
    /\ t \in FreeSlots
    /\ \A other \in FreeSlots : SlotNo(t) <= SlotNo(other)
    /\ updates < MaxUpdates

Put(t, rec) == tasks' = [tasks EXCEPT ![t] = rec]

\* the history after set_admin(user_id) left the admin file as file_after
NoteSetAdmin(h, file_after, user_id) ==
    [h EXCEPT !.first_admin = IF @ = None /\ file_after # NoFile
                              THEN file_after[1].admin_id ELSE @,
              !.last_set_admin = user_id]

\* the history after log_user_data(user) ran on the log file at clock t
NoteLogged(h, file, user, t, io) ==
    IF (file # NoFile /\ io = "read_error") \/ io = "write_error" THEN h
    ELSE [h EXCEPT !.recorded = @ \cup {user.id}, !.stamps[user.id] = strftime(t)]

\* the awaited call raised and nothing catches it
Raise(rec) == [rec EXCEPT !.pc = "done", !.raised = TRUE]

(***************************************************************************)
(* The clock.                                                              *)
(***************************************************************************)
Tick ==
    /\ now < MaxTime
    /\ now' = now + 1
    /\ UNCHANGED <<admin_file, users_log, temp_files, tasks, updates, history>>
    /\ UNCHANGED session_vars

(***************************************************************************)
(* The event loop.                                                         *)
(***************************************************************************)
\* the event loop drops a coroutine that has ended
Retire(t) ==
    /\ tasks[t].pc = "done"
    /\ Put(t, Idle)
    /\ UNCHANGED <<admin_file, users_log, temp_files, now, updates, history>>
    /\ UNCHANGED session_vars

(***************************************************************************)
(* start                                                                   *)
(***************************************************************************)
\* start runs to its first await: log the user, make them admin if none is set
StartBegin(t, user, io) ==
    /\ Free(t)
    /\ updates' = updates + 1
    /\ users_log' = log_user_data(users_log, user, now, io)
    /\ IF get_admin(admin_file) = None
       THEN /\ admin_file' = set_admin(admin_file, user.id)
            /\ Put(t, [Idle EXCEPT !.handler = "start", !.user = user.id, !.pc = "reply_admin"])
            /\ history' = NoteSetAdmin(NoteLogged(history, users_log, user, now, io),
                                       admin_file', user.id)
       ELSE /\ admin_file' = admin_file
            /\ Put(t, [Idle EXCEPT !.handler = "start", !.user = user.id, !.pc = "reply_welcome"])
            /\ history' = NoteLogged(history, users_log, user, now, io)
    /\ UNCHANGED <<temp_files, now>>
    /\ UNCHANGED session_vars

\* the admin confirmation reply returns
StartAdminReplied(t, ok) ==
    /\ tasks[t].pc = "reply_admin"
    /\ Put(t, IF ok THEN [tasks[t] EXCEPT !.replies = @ \cup {"admin_set"}, !.pc = "reply_welcome"]
              ELSE Raise(tasks[t]))
    /\ history' = IF ok THEN [history EXCEPT !.confirmed = Append(@, tasks[t].user)]
                  ELSE history
    /\ UNCHANGED <<admin_file, users_log, temp_files, now, updates>>
    /\ UNCHANGED session_vars

\* the welcome reply returns
StartWelcomed(t, ok) ==
    /\ tasks[t].pc = "reply_welcome"
    /\ Put(t, IF ok THEN [tasks[t] EXCEPT !.replies = @ \cup {"welcome"}, !.pc = "done"]
              ELSE Raise(tasks[t]))
    /\ UNCHANGED <<admin_file, users_log, temp_files, now, updates, history>>
    /\ UNCHANGED session_vars

(***************************************************************************)
(* list_users                                                              *)
(***************************************************************************)
\* list_users runs to its first await
UsersBegin(t, user, io) ==
    /\ Free(t)
    /\ updates' = updates + 1
    /\ LET rec == [Idle EXCEPT !.handler = "users", !.user = user.id]
       IN  IF denied(user.id, admin_file)
           THEN Put(t, [rec EXCEPT !.pc = "reply_denied"])
           ELSE IF users_log = NoFile
           THEN Put(t, [rec EXCEPT !.pc = "reply_no_users"])
           ELSE IF io = "read_error"
           THEN Put(t, [rec EXCEPT !.pc = "reply_error"])
           ELSE Put(t, [rec EXCEPT !.pc = "reply_listing", !.log_read = TRUE,
                                   !.listing = users_summary(users_log[1], now)])
    /\ UNCHANGED <<admin_file, users_log, temp_files, now, history>>
    /\ UNCHANGED session_vars

\* the permission-denied reply returns
UsersDenied(t, ok) ==
    /\ tasks[t].pc = "reply_denied"
    /\ Put(t, IF ok THEN [tasks[t] EXCEPT !.replies = @ \cup {"denied"}, !.pc = "done"]
              ELSE Raise(tasks[t]))
    /\ UNCHANGED <<admin_file, users_log, temp_files, now, updates, history>>
    /\ UNCHANGED session_vars

\* a reply inside the try block returns: "No users found." or the summary
UsersReplied(t, ok) ==
    /\ tasks[t].pc \in {"reply_no_users", "reply_listing"}
    /\ Put(t, IF ok
              THEN [tasks[t] EXCEPT !.pc = "done",
                       !.replies = @ \cup {IF tasks[t].pc = "reply_listing"
                                           THEN "listing" ELSE "no_users"}]
              ELSE [tasks[t] EXCEPT !.pc = "reply_error"])
    /\ UNCHANGED <<admin_file, users_log, temp_files, now, updates, history>>
    /\ UNCHANGED session_vars

\* the error reply of the except block returns
UsersErrorReplied(t, ok) ==
    /\ tasks[t].pc = "reply_error"
    /\ Put(t, IF ok THEN [tasks[t] EXCEPT !.replies = @ \cup {"error"}, !.pc = "done"]
              ELSE Raise(tasks[t]))
    /\ UNCHANGED <<admin_file, users_log, temp_files, now, updates, history>>
    /\ UNCHANGED session_vars

(***************************************************************************)
(* download                                                                *)
(***************************************************************************)
\* the temp file of an invocation that resolved a media URL
FileOf(rec) == file_name(rec.chat_id, rec.media_url)

\* the handler ends after its finally clause
Finish(rec, files) ==
    [rec EXCEPT !.pc = "done", !.temp_left = FileOf(rec) \in files]

\* download around a log_user_data without its try / except: an I/O error in
\* the log leaves the handler
DownloadBegin_uncaught(t, user, chat_id, text, post, io) ==
    /\ Free(t)
    /\ updates' = updates + 1
    /\ users_log' = log_user_data(users_log, user, now, io)
    /\ LET instagram_post == strip(text)
           rec == [Idle EXCEPT !.handler = "download", !.user = user.id,
                               !.chat_id = chat_id, !.text = text, !.post = post]
           valid == is_valid_instagram_url(instagram_post)
       IN  IF (users_log # NoFile /\ io = "read_error") \/ io = "write_error"
           THEN Put(t, Raise(rec))
           ELSE Put(t, [rec EXCEPT !.valid = valid,
                                   !.pc = IF valid THEN "send_action" ELSE "reply_invalid"])
    /\ history' = NoteLogged(history, users_log, user, now, io)
    /\ UNCHANGED <<admin_file, temp_files, now>>
    /\ UNCHANGED session_vars

\* download runs to its first await: log the user, validate the text
DownloadBegin(t, user, chat_id, text, post, io) ==
    /\ Free(t)
    /\ updates' = updates + 1
    /\ users_log' = log_user_data(users_log, user, now, io)
    /\ LET instagram_post == strip(text)
           rec == [Idle EXCEPT !.handler = "download", !.user = user.id,
                               !.chat_id = chat_id, !.text = text, !.post = post,
                               !.valid = is_valid_instagram_url(instagram_post)]
       IN  Put(t, [rec EXCEPT !.pc = IF rec.valid THEN "send_action" ELSE "reply_invalid"])
    /\ history' = NoteLogged(history, users_log, user, now, io)
    /\ UNCHANGED <<admin_file, temp_files, now>>
    /\ UNCHANGED session_vars

\* the invalid-URL reply returns
DownloadRejected(t, ok) ==
    /\ tasks[t].pc = "reply_invalid"
    /\ Put(t, IF ok THEN [tasks[t] EXCEPT !.replies = @ \cup {"invalid"}, !.pc = "done"]
              ELSE Raise(tasks[t]))
    /\ UNCHANGED <<admin_file, users_log, temp_files, now, updates, history>>
    /\ UNCHANGED session_vars

\* the typing chat action returns
DownloadTyping(t, ok) ==
    /\ tasks[t].pc = "send_action"
    /\ Put(t, IF ok THEN [tasks[t] EXCEPT !.pc = "reply_progress"] ELSE Raise(tasks[t]))
    /\ UNCHANGED <<admin_file, users_log, temp_files, now, updates, history>>
    /\ UNCHANGED session_vars

\* the progress reply returns; the handler calls fetch_instagram_data, a plain
\* function call that holds the event loop's thread until it returns
DownloadFetch(t, ok) ==
    /\ tasks[t].pc = "reply_progress"
    /\ Put(t, IF ok THEN [tasks[t] EXCEPT !.progress = "fetching", !.pc = "lookup"]
              ELSE Raise(tasks[t]))
    /\ UNCHANGED <<admin_file, users_log, temp_files, now, updates, history>>
    /\ UNCHANGED session_vars

\* fetch_instagram_data returns; with a media URL the handler goes straight
\* into requests.get, another call that holds the thread
LookupReturned(t) ==
    /\ tasks[t].pc = "lookup"
    /\ LET media_url == fetch_instagram_data(strip(tasks[t].text), tasks[t].post)
           rec == [tasks[t] EXCEPT !.fetched = TRUE, !.media_url = media_url]
       IN  Put(t, IF media_url = NoText
                  THEN [rec EXCEPT !.pc = "edit_fetch_failed", !.last_edit = "fetch_failed"]
                  ELSE [rec EXCEPT !.got = TRUE, !.pc = "get"])
    /\ UNCHANGED <<admin_file, users_log, temp_files, now, updates, history>>
    /\ UNCHANGED session_vars

\* requests.get and the streaming to the temp file end; the handler opens the
\* file and starts the upload, or goes to the except block
GetReturned(t, get) ==
    /\ tasks[t].pc = "get"
    /\ IF get = "get_error"
       THEN /\ Put(t, [tasks[t] EXCEPT !.pc = "edit_send_failed", !.last_edit = "send_failed"])
            /\ UNCHANGED temp_files
       ELSE IF get = "stream_error"
       THEN /\ Put(t, [tasks[t] EXCEPT !.made_file = TRUE, !.pc = "edit_send_failed",
                                       !.last_edit = "send_failed"])
            /\ temp_files' = temp_files \cup {FileOf(tasks[t])}
       ELSE /\ Put(t, [tasks[t] EXCEPT !.made_file = TRUE, !.pc = "upload",
                                       !.upload_call = upload_kind(FileOf(tasks[t]))])
            /\ temp_files' = temp_files \cup {FileOf(tasks[t])}
    /\ UNCHANGED <<admin_file, users_log, now, updates, history>>
    /\ UNCHANGED session_vars

\* reply_video or reply_photo returns
DownloadUploaded(t, ok) ==
    /\ tasks[t].pc = "upload"
    /\ Put(t, IF ok THEN [tasks[t] EXCEPT !.uploaded = tasks[t].upload_call,
                                          !.pc = "delete_progress"]
              ELSE [tasks[t] EXCEPT !.pc = "edit_send_failed", !.last_edit = "send_failed"])
    /\ UNCHANGED <<admin_file, users_log, temp_files, now, updates, history>>
    /\ UNCHANGED session_vars

\* progress_message.delete() returns
DownloadDeleted(t, ok) ==
    /\ tasks[t].pc = "delete_progress"
    /\ IF ok
       THEN /\ temp_files' = cleanup(temp_files, FileOf(tasks[t]))
            /\ Put(t, Finish([tasks[t] EXCEPT !.progress = "deleted"], temp_files'))
       ELSE /\ Put(t, [tasks[t] EXCEPT !.pc = "edit_send_failed", !.last_edit = "send_failed"])
            /\ UNCHANGED temp_files
    /\ UNCHANGED <<admin_file, users_log, now, updates, history>>
    /\ UNCHANGED session_vars

\* the edit to the failed-to-send text returns; the finally clause runs
DownloadSendFailed(t, ok) ==
    /\ tasks[t].pc = "edit_send_failed"
    /\ temp_files' = cleanup(temp_files, FileOf(tasks[t]))
    /\ Put(t, Finish([tasks[t] EXCEPT !.progress = IF ok THEN "send_failed" ELSE @,
                                      !.raised = ~ok], temp_files'))
    /\ UNCHANGED <<admin_file, users_log, now, updates, history>>
    /\ UNCHANGED session_vars

\* the edit to the failed-to-fetch text returns
DownloadFetchFailed(t, ok) ==
    /\ tasks[t].pc = "edit_fetch_failed"
    /\ Put(t, IF ok THEN [tasks[t] EXCEPT !.progress = "fetch_failed", !.pc = "done"]
              ELSE Raise(tasks[t]))
    /\ UNCHANGED <<admin_file, users_log, temp_files, now, updates, history>>
    /\ UNCHANGED session_vars

(***************************************************************************)
(* Specifications.                                                         *)
(***************************************************************************)
\* no handler is running: the application awaits each update's handler before
\* it takes the next update (ApplicationBuilder() is built without
\* concurrent_updates)
Quiet == \A t \in Tasks : tasks[t].pc = "idle"

\* the handler in slot t is inside a call that does not await: the event
\* loop's thread runs nothing else until the call returns
Blocked(t) == tasks[t].pc \in {"lookup", "get"}

\* a call that holds the thread returns
Unblock ==
    \/ \E t \in Tasks : LookupReturned(t)
    \/ \E t \in Tasks, get \in GetOutcomes : GetReturned(t, get)

\* an awaited call of a running handler returns or raises
Resume ==
    \/ \E t \in Tasks, ok \in BOOLEAN : StartAdminReplied(t, ok)
    \/ \E t \in Tasks, ok \in BOOLEAN : StartWelcomed(t, ok)
    \/ \E t \in Tasks, ok \in BOOLEAN : UsersDenied(t, ok)
    \/ \E t \in Tasks, ok \in BOOLEAN : UsersReplied(t, ok)
    \/ \E t \in Tasks, ok \in BOOLEAN : UsersErrorReplied(t, ok)
    \/ \E t \in Tasks, ok \in BOOLEAN : DownloadRejected(t, ok)
    \/ \E t \in Tasks, ok \in BOOLEAN : DownloadTyping(t, ok)
    \/ \E t \in Tasks, ok \in BOOLEAN : DownloadFetch(t, ok)
    \/ \E t \in Tasks, ok \in BOOLEAN : DownloadUploaded(t, ok)
    \/ \E t \in Tasks, ok \in BOOLEAN : DownloadDeleted(t, ok)
    \/ \E t \in Tasks, ok \in BOOLEAN : DownloadSendFailed(t, ok)
    \/ \E t \in Tasks, ok \in BOOLEAN : DownloadFetchFailed(t, ok)

\* an update is dispatched to its handler
Dispatch ==
    \/ \E t \in Tasks, user \in EffectiveUsers, io \in IoOutcomes : StartBegin(t, user, io)
    \/ \E t \in Tasks, user \in EffectiveUsers, io \in IoOutcomes : UsersBegin(t, user, io)
    \/ \E t \in Tasks, user \in EffectiveUsers, chat_id \in ChatIds, req \in Requests,
          io \in IoOutcomes :
            DownloadBegin(t, user, chat_id, req.text, req.post, io)

\* a running handler gets on
Step == Resume \/ Unblock

Next ==
    \/ Tick
    \/ Step
    \/ \E t \in Tasks : Retire(t)
    \/ Quiet /\ Dispatch

Spec == Init /\ [][Next]_vars

\* set_admin called on its own, outside start
SetAdminCall(user_id) ==
    /\ admin_file' = set_admin(admin_file, user_id)
    /\ history' = NoteSetAdmin(history, admin_file', user_id)
    /\ UNCHANGED <<users_log, temp_files, now, tasks, updates>>
    /\ UNCHANGED session_vars

\* the admin registry under any sequence of start and set_admin calls by any users
NextApi ==
    \/ Tick
    \/ \E user_id \in UserIds : SetAdminCall(user_id)
    \/ Quiet /\ \E t \in Tasks, user \in EffectiveUsers, io \in IoOutcomes : StartBegin(t, user, io)
    \/ \E t \in Tasks, ok \in BOOLEAN : StartAdminReplied(t, ok)
    \/ \E t \in Tasks, ok \in BOOLEAN : StartWelcomed(t, ok)
    \/ \E t \in Tasks : Retire(t)

SpecApi == Init /\ [][NextApi]_vars

(***************************************************************************)
(* Handlers run concurrently for distinct messages: an update is           *)
(* dispatched while other handlers are suspended at an await.  All the     *)
(* coroutines run on the event loop's one thread, so a handler gives way   *)
(* only at an await, and nothing else runs while a call holds the thread.  *)
(***************************************************************************)
\* the updates dispatched while handlers overlap
MaxOverlap == 2

\* the senders, the chat and the messages of the overlapping updates: two
\* users, who write from one chat, a text that is accepted (its post resolves
\* to a video or cannot be looked up) and a text that is rejected
OverlapUsers == {u \in EffectiveUsers : u.username # None}
OverlapChats == {<<"7">>}
OverlapRequests == {r \in Requests : r.text \in {UrlEscPost, NotAUrl} /\ r.post # PlainPost}

\* an update is dispatched while handlers may be running; users.log can be
\* read and written
DispatchOverlapped ==
    /\ updates < MaxOverlap
    /\ \/ \E t \in Tasks, user \in OverlapUsers : StartBegin(t, user, "ok")
       \/ \E t \in Tasks, user \in OverlapUsers : UsersBegin(t, user, "ok")
       \/ \E t \in Tasks, user \in OverlapUsers, chat_id \in OverlapChats,
             req \in OverlapRequests :
               DownloadBegin(t, user, chat_id, req.text, req.post, "ok")

\* the event loop's thread is free to run a coroutine
Running == \A t \in Tasks : ~Blocked(t)

NextConcurrent ==
    \/ Tick
    \/ Unblock
    \/ Running /\ Resume
    \/ Running /\ \E t \in Tasks : Retire(t)
    \/ Running /\ DispatchOverlapped

SpecConcurrent == Init /\ [][NextConcurrent]_vars

(***************************************************************************)
(* load_or_create_session, called by any number of threads.                *)
(***************************************************************************)
\* a thread calls load_or_create_session and reaches the with statement
CallSession(c) ==
    /\ threads[c] = "idle"
    /\ threads' = [threads EXCEPT ![c] = "with"]
    /\ UNCHANGED <<session_lock, session_file, loader, calls>>
    /\ UNCHANGED bot_vars

\* a with statement that does not wait for the lock
Acquire_unlocked(c) ==
    /\ threads[c] = "with"
    /\ session_lock' = c
    /\ threads' = [threads EXCEPT ![c] = "exists"]
    /\ calls' = [calls EXCEPT !.taken = Append(@, c)]
    /\ UNCHANGED <<session_file, loader>>
    /\ UNCHANGED bot_vars

\* with session_lock: the thread takes the lock once no thread holds it
Acquire(c) ==
    /\ threads[c] = "with"
    /\ session_lock = None
    /\ session_lock' = c
    /\ threads' = [threads EXCEPT ![c] = "exists"]
    /\ calls' = [calls EXCEPT !.taken = Append(@, c)]
    /\ UNCHANGED <<session_file, loader>>
    /\ UNCHANGED bot_vars

\* if os.path.exists(SESSION_FILE)
Exists(c) ==
    /\ threads[c] = "exists"
    /\ threads' = [threads EXCEPT ![c] = IF session_file # NoFile THEN "load" ELSE "login"]
    /\ UNCHANGED <<session_lock, session_file, loader, calls>>
    /\ UNCHANGED bot_vars

\* loader.load_session_from_file(INSTAGRAM_USERNAME, SESSION_FILE)
LoadSession(c) ==
    /\ threads[c] = "load"
    /\ session_file # NoFile
    /\ loader' = session_file[1]
    /\ threads' = [threads EXCEPT ![c] = "release"]
    /\ calls' = [calls EXCEPT !.loads = Append(@, c)]
    /\ UNCHANGED <<session_lock, session_file>>
    /\ UNCHANGED bot_vars

\* loader.login(INSTAGRAM_USERNAME, INSTAGRAM_PASSWORD): a new session, named
\* here after the thread that logged in
Login(c) ==
    /\ threads[c] = "login"
    /\ loader' = c
    /\ threads' = [threads EXCEPT ![c] = "save"]
    /\ calls' = [calls EXCEPT !.logins = Append(@, c)]
    /\ UNCHANGED <<session_lock, session_file>>
    /\ UNCHANGED bot_vars

\* loader.save_session_to_file(SESSION_FILE)
SaveSession(c) ==
    /\ threads[c] = "save"
    /\ session_file' = <<loader>>
    /\ threads' = [threads EXCEPT ![c] = "release"]
    /\ calls' = [calls EXCEPT !.saves = Append(@, c)]
    /\ UNCHANGED <<session_lock, loader>>
    /\ UNCHANGED bot_vars

\* the with block ends: the lock is released and the call returns
Release(c) ==
    /\ threads[c] = "release"
    /\ session_lock' = None
    /\ threads' = [threads EXCEPT ![c] = "done"]
    /\ UNCHANGED <<session_file, loader, calls>>
    /\ UNCHANGED bot_vars

\* no session file and no session yet, and no bot state
InitSession ==
    /\ admin_file = NoFile
    /\ users_log = NoFile
    /\ temp_files = {}
    /\ now = 0
    /\ tasks = [t \in Tasks |-> Idle]
    /\ updates = 0
    /\ history = NoHistory
    /\ session_lock = None
    /\ session_file = NoFile
    /\ loader = None
    /\ threads = [c \in Callers |-> "idle"]
    /\ calls = NoCalls

NextSession ==
    \/ \E c \in Callers : CallSession(c)
    \/ \E c \in Callers : Acquire(c)
    \/ \E c \in Callers : Exists(c)
    \/ \E c \in Callers : LoadSession(c)
    \/ \E c \in Callers : Login(c)
    \/ \E c \in Callers : SaveSession(c)
    \/ \E c \in Callers : Release(c)

SpecSession == InitSession /\ [][NextSession]_vars

(***************************************************************************)
(* Reference data for the properties.                                      *)
(***************************************************************************)
DOT_COM_SLASH == <<".", "c", "o", "m", "/">>

\* the URLs of a supported shape, each with its identifier path segment
Shapes ==
    { [url |-> scheme \o SCHEME_SEP \o www \o INSTAGRAM \o DOT_COM_SLASH
               \o MediaKinds[k] \o <<"/">> \o id \o tail,
       id |-> id] :
        scheme \in {HTTP, HTTP \o <<"s">>},
        www \in {<<>>, WWW \o <<".">>},
        k \in DOMAIN MediaKinds,
        id \in {<<"A", "B", "C">>, <<"Q", "1">>, <<"C", "x", "1", "2", "3", "4">>},
        tail \in {<<>>, <<"/">>, <<"?", "x">>, <<"#", "t">>, <<"&", "x">>} }

IsSupported(text) == \E sh \in Shapes : sh.url = text
IdentOf(text) == (CHOOSE sh \in Shapes : sh.url = text).id

\* the text contains instagram.com/(p|reel|tv)/
HasInstagramPath(text) ==
    \E k \in DOMAIN MediaKinds :
        Contains(text, INSTAGRAM \o DOT_COM_SLASH \o MediaKinds[k] \o <<"/">>)

\* the media URL the provider gives for a post that it can look up
Resolved(post) == IF post.is_video THEN post.video_url ELSE post.url

Downloads == {t \in Tasks : tasks[t].handler = "download"}

(***************************************************************************)
(* C1: for every URL of a supported shape (http or https, optional www.,   *)
(* instagram.com, then p, reel or tv, then an identifier),                 *)
(* is_valid_instagram_url returns true and extract_shortcode returns       *)
(* exactly the identifier segment.                                         *)
(***************************************************************************)
C1_SupportedUrlsAccepted ==
    \A t \in Downloads :
        IsSupported(tasks[t].text) =>
            /\ tasks[t].valid
            /\ extract_shortcode(tasks[t].text) = IdentOf(tasks[t].text)

(***************************************************************************)
(* C2: a download request with a supported URL for which the resolver      *)
(* returns a media URL ends, when no call fails, with the temp file        *)
(* written and an upload of the kind the video marker picks: video for a   *)
(* URL with the marker, photo without it.                                  *)
(***************************************************************************)
C2_SupportedUrlRelayed ==
    \A t \in Downloads :
        LET r == tasks[t] IN
        ( /\ IsSupported(r.text)
          /\ ~r.post.raises
          /\ r.pc = "done"
          /\ ~r.raised
          /\ r.last_edit = "none" ) =>
            /\ r.made_file
            /\ r.uploaded = IF Contains(Resolved(r.post), VIDEO) THEN "video" ELSE "photo"

(***************************************************************************)
(* C3: a text that does not contain instagram.com/(p|reel|tv)/ is not      *)
(* valid, and the download handler rejects it: no lookup, no media         *)
(* download and no upload happen for it.                                   *)
(***************************************************************************)
C3_UnsupportedTextRejected ==
    \A t \in Downloads :
        LET r == tasks[t] IN
        ~HasInstagramPath(r.text) =>
            /\ ~r.valid
            /\ r.pc \in {"reply_invalid", "done"}
            /\ ~r.fetched /\ ~r.got /\ r.upload_call = "none"

(***************************************************************************)
(* C4: whenever an invocation of the download handler ends, by any exit    *)
(* path, the temp file it named does not exist.                            *)
(***************************************************************************)
C4_TempFileRemoved ==
    \A t \in Downloads : tasks[t].pc = "done" => ~tasks[t].temp_left

\* the upload raised, then the edit to the failure text raised too
C4_Witness ==
    \E t \in Downloads :
        /\ tasks[t].pc = "done" /\ tasks[t].made_file
        /\ tasks[t].upload_call = "video" /\ tasks[t].uploaded = "none"
        /\ tasks[t].raised
        /\ FileOf(tasks[t]) \notin temp_files

(***************************************************************************)
(* C5: when the lookup fails (no identifier, or the provider raises),      *)
(* fetch_instagram_data returns none; the handler then makes the edit to   *)
(* the failed-to-fetch text, and creates no temp file, downloads nothing   *)
(* and uploads nothing.                                                    *)
(***************************************************************************)
C5_LookupFailure ==
    \A t \in Downloads :
        LET r == tasks[t] IN
        /\ (r.fetched /\ (r.post.raises \/ extract_shortcode(strip(r.text)) = NoText))
              => r.media_url = NoText
        /\ (r.fetched /\ r.media_url = NoText) =>
              /\ r.pc \in {"edit_fetch_failed", "done"}
              /\ r.last_edit = "fetch_failed"
              /\ (r.pc = "done" /\ ~r.raised => r.progress = "fetch_failed")
              /\ ~r.made_file /\ ~r.got /\ r.upload_call = "none"

\* a private post: the lookup raised and the progress message says so
C5_Witness ==
    \E t \in Downloads :
        /\ tasks[t].pc = "done" /\ tasks[t].fetched /\ tasks[t].post.raises
        /\ extract_shortcode(strip(tasks[t].text)) # NoText
        /\ tasks[t].progress = "fetch_failed"
        /\ temp_files = {}

(***************************************************************************)
(* C6: if the media download or the upload fails, the handler reports the  *)
(* failed-to-send text and no exception leaves the handler.                *)
(***************************************************************************)
C6_RelayFailureReported ==
    \A t \in Downloads :
        (tasks[t].pc = "done" /\ tasks[t].last_edit = "send_failed") =>
            /\ ~tasks[t].raised
            /\ tasks[t].progress = "send_failed"

(***************************************************************************)
(* C7: list_users gives a caller who is not the stored admin (every caller *)
(* while no admin is stored) only the permission-denied reply and never    *)
(* reads the log; and no step of list_users changes the user log or the    *)
(* admin record.                                                           *)
(***************************************************************************)
UsersStep(t) == tasks'[t] # tasks[t] /\ tasks'[t].handler = "users"

C7_UsersAdminOnly ==
    /\ [](\A t \in Tasks :
            (tasks[t].handler = "users" /\ tasks[t].user # get_admin(admin_file)) =>
                /\ ~tasks[t].log_read
                /\ tasks[t].listing.lines = <<>>
                /\ tasks[t].replies \subseteq {"denied"}
                /\ tasks[t].pc \in {"reply_denied", "done"})
    /\ [][\A t \in Tasks :
            UsersStep(t) => users_log' = users_log /\ admin_file' = admin_file]_vars

\* a caller is refused while the log exists and no admin is stored
C7_Witness ==
    \E t \in Tasks :
        /\ tasks[t].handler = "users" /\ tasks[t].pc = "done"
        /\ tasks[t].replies = {"denied"}
        /\ admin_file = NoFile
        /\ users_log # NoFile

(***************************************************************************)
(* C8: the admin never changes: whatever start and set_admin calls are     *)
(* made, get_admin returns the identifier the first writing set_admin      *)
(* call stored.                                                            *)
(***************************************************************************)
C8_AdminNeverChanges ==
    /\ (admin_file = NoFile) <=> (history.first_admin = None)
    /\ history.first_admin # None => get_admin(admin_file) = history.first_admin
    /\ history.last_set_admin # None => admin_file # NoFile

\* set_admin was called for another user after the admin was stored
C8_Witness ==
    /\ history.first_admin # None
    /\ history.last_set_admin \notin {None, history.first_admin}
    /\ get_admin(admin_file) = history.first_admin
    /\ \E t \in Tasks : tasks[t].handler = "start" /\ tasks[t].pc = "done"
                        /\ tasks[t].user # history.first_admin

(***************************************************************************)
(* C9: the user log never holds two records with one user_id; recording a  *)
(* user who has a record leaves the log length unchanged and changes at    *)
(* most that record's timestamp.                                           *)
(***************************************************************************)
LogOf(file) == IF file = NoFile THEN <<>> ELSE file[1]
IdsOf(file) == {LogOf(file)[i].user_id : i \in DOMAIN LogOf(file)}

\* this step starts a handler that calls log_user_data for user_id
Logs(t, user_id) ==
    /\ tasks[t].pc = "idle"
    /\ tasks'[t].handler \in {"start", "download"}
    /\ tasks'[t].user = user_id

C9_OneRecordPerUser ==
    /\ [](\A i, j \in DOMAIN LogOf(users_log) :
            LogOf(users_log)[i].user_id = LogOf(users_log)[j].user_id => i = j)
    /\ [][\A t \in Tasks, u \in UserIds :
            (Logs(t, u) /\ u \in IdsOf(users_log)) =>
                /\ Len(LogOf(users_log')) = Len(LogOf(users_log))
                /\ \A i \in DOMAIN LogOf(users_log) :
                     LET old == LogOf(users_log)[i]
                         new == LogOf(users_log')[i]
                     IN  IF old.user_id = u
                         THEN /\ new = [old EXCEPT !.timestamp = new.timestamp]
                              /\ new.timestamp \in {old.timestamp, strftime(now)}
                         ELSE new = old]_vars

\* u1 was recorded, then u2, then u1 again under another name
C9_Witness ==
    /\ Len(LogOf(users_log)) = 2
    /\ LogOf(users_log)[1].user_id = "u1"
    /\ LogOf(users_log)[1].username = None
    /\ LogOf(users_log)[2].user_id = "u2"
    /\ strptime(LogOf(users_log)[1].timestamp) > strptime(LogOf(users_log)[2].timestamp)

(***************************************************************************)
(* C10: the identifiers in the log are those of the users whose            *)
(* log_user_data call ended without I/O error, one record each, and no     *)
(* later call removes a record.                                            *)
(***************************************************************************)
C10_AllUsersKept ==
    /\ [](/\ IdsOf(users_log) = history.recorded
          /\ Len(LogOf(users_log)) = Cardinality(history.recorded))
    /\ [][IdsOf(users_log) \subseteq IdsOf(users_log')]_vars

\* two distinct users, each findable by its identifier
C10_Witness ==
    /\ Len(LogOf(users_log)) = 2
    /\ \E i, j \in DOMAIN LogOf(users_log) :
          LogOf(users_log)[i].user_id = "u1" /\ LogOf(users_log)[j].user_id = "u2"
    /\ history.recorded = {"u1", "u2"}

(***************************************************************************)
(* C11: for the admin caller, the same-day count list_users reports is the *)
(* number of log records whose stored date is the current date of the      *)
(* bot's clock, a record dated the day before is not counted, and the      *)
(* reported total is the length of the log.                                *)
(***************************************************************************)
\* the records of the log whose stored timestamp carries the day `day`
DatedOn(file, day) == {i \in DOMAIN LogOf(file) : LogOf(file)[i].timestamp[1] = day}

\* C11: at the step where list_users reads the log for the admin, the today
\* count is the number of records stored with the clock's current day, the
\* records of any other day are left out, and total is the log's length
C11_TodayCount ==
    [][\A t \in Tasks :
          (UsersStep(t) /\ tasks[t].pc = "idle" /\ tasks'[t].log_read)
              => /\ tasks'[t].user = admin_file[1].admin_id
                 /\ tasks'[t].listing.today
                        = Cardinality(DatedOn(users_log, now \div DayLen))
                 /\ tasks'[t].listing.total = Len(LogOf(users_log))
                 /\ tasks'[t].listing.today + Cardinality(DOMAIN LogOf(users_log)
                        \ DatedOn(users_log, now \div DayLen)) = tasks'[t].listing.total]_vars

\* the admin got a listing of two records, one of them dated the day before
C11_Witness ==
    \E t \in Tasks :
        /\ tasks[t].handler = "users" /\ "listing" \in tasks[t].replies
        /\ tasks[t].listing.total = 2 /\ tasks[t].listing.today = 1
        /\ now \div DayLen = 1
        /\ DatedOn(users_log, 0) # {}

(***************************************************************************)
(* C12: a download request whose text is a malformed or unsupported URL is *)
(* reported inline and causes no state change: the user activity log, the  *)
(* admin record and the set of temp files are the same after the handler   *)
(* returns as before it was invoked.                                       *)
(***************************************************************************)
\* a step of a download invocation whose text failed validation
RejectedStep(t) ==
    tasks'[t] # tasks[t] /\ tasks'[t].handler = "download" /\ ~tasks'[t].valid

OnlyRecorded(before, after, user_id, t) ==
    /\ Len(after) \in {Len(before), Len(before) + 1}
    /\ \A i \in DOMAIN before : before[i].user_id # user_id => after[i] = before[i]
    /\ \A i \in DOMAIN before : before[i].user_id = user_id =>
            after[i] = [before[i] EXCEPT !.timestamp = <<t \div DayLen, t % DayLen>>]
    /\ Len(after) > Len(before) =>
            /\ after[Len(after)].user_id = user_id
            /\ \A i \in DOMAIN before : before[i].user_id # user_id

Stamped(file, user_id, t) ==
    \E i \in DOMAIN LogOf(file) :
        /\ LogOf(file)[i].user_id = user_id
        /\ LogOf(file)[i].timestamp = <<t \div DayLen, t % DayLen>>

\* start or download is dispatched into slot t and its log_user_data call
\* leaves no record of the caller at the current clock: the call failed
LogFailedStep(t) ==
    /\ tasks[t].pc = "idle"
    /\ tasks'[t].handler \in {"start", "download"}
    /\ ~Stamped(users_log', tasks'[t].user, now)

\* C13: when log_user_data fails, the handler goes on as if it had not: the
\* log file is as it was, nothing is raised, start is at its first reply and
\* download has validated its text and is at the typing action or the
\* invalid-URL reply; a start that ends without a failed reply has sent the
\* welcome, and a download whose calls succeed relays the media although the
\* sender is not in the log
C13_LoggingNeverBlocks ==
    /\ [][\A t \in Tasks :
            LogFailedStep(t) =>
                /\ users_log' = users_log
                /\ ~tasks'[t].raised
                /\ tasks'[t].handler = "start" =>
                       tasks'[t].pc \in {"reply_admin", "reply_welcome"}
                /\ tasks'[t].handler = "download" =>
                       /\ tasks'[t].valid = is_valid_instagram_url(strip(tasks'[t].text))
                       /\ tasks'[t].pc = IF tasks'[t].valid THEN "send_action"
                                         ELSE "reply_invalid"]_vars
    /\ [](\A t \in Tasks :
            (tasks[t].handler = "start" /\ tasks[t].pc = "done" /\ ~tasks[t].raised)
                => "welcome" \in tasks[t].replies)
    /\ [](\A t \in Tasks :
            (tasks[t].handler \in {"start", "download"} /\ tasks[t].raised)
                => tasks[t].pc = "done")

\* a download relayed its media although its sender never got into the log
C13_Witness ==
    \E t \in Tasks :
        /\ tasks[t].handler = "download" /\ tasks[t].uploaded # "none"
        /\ tasks[t].progress = "deleted"
        /\ tasks[t].user \notin IdsOf(users_log)

(***************************************************************************)
(* C14: for any number of concurrent invocations of load_or_create_session *)
(* starting with no session file, at most one invocation is inside the     *)
(* load-or-create sequence at a time, the provider login and the           *)
(* session-file write happen exactly once (in the first invocation to take *)
(* the lock), and every later invocation loads the already-established     *)
(* session from the file without logging in again.                         *)
(***************************************************************************)
\* the threads in a sequence
Among(seq) == {seq[i] : i \in DOMAIN seq}

\* C14: at most one thread is between the with statement and the release; the
\* login and the save are made at most once, by the first thread that took
\* the lock, and exactly once by the time a call has returned; every thread
\* that took the lock later loads the file and never logs in, and what it
\* loads is the session the first thread saved
C14_SessionOnce ==
    /\ Cardinality({c \in Callers : threads[c] \in InLock}) <= 1
    /\ \A c \in Callers : threads[c] \in InLock <=> session_lock = c
    /\ Len(calls.logins) <= 1 /\ Len(calls.saves) <= 1
    /\ Among(calls.logins) \cup Among(calls.saves) \subseteq
            {calls.taken[i] : i \in DOMAIN calls.taken \cap {1}}
    /\ \A i \in DOMAIN calls.taken :
            i > 1 => /\ calls.taken[i] \notin Among(calls.logins) \cup Among(calls.saves)
                     /\ threads[calls.taken[i]] \in {"exists", "load", "release", "done"}
                     /\ session_file = <<calls.taken[1]>>
    /\ \A c \in Callers :
            threads[c] = "done" =>
                /\ calls.logins = <<calls.taken[1]>>
                /\ calls.saves = <<calls.taken[1]>>
                /\ session_file = <<calls.taken[1]>>
                /\ loader = calls.taken[1]
                /\ c # calls.taken[1] => c \in Among(calls.loads)

\* every call has returned: one thread logged in and saved, the others loaded
C14_Witness ==
    /\ \A c \in Callers : threads[c] = "done"
    /\ Len(calls.logins) = 1 /\ Len(calls.saves) = 1
    /\ Len(calls.loads) = Cardinality(Callers) - 1

(***************************************************************************)
(* C15: concurrent requests from different users can race on the user      *)
(* activity log and lose updates: there is an interleaving of two handler  *)
(* invocations, each calling log_user_data for a different user, after     *)
(* which the log file lacks the record or timestamp update of one of them  *)
(* (last-write-wins on the whole file).                                    *)
(***************************************************************************)
\* two invocations of start or download by different users that overlap: both
\* have called log_user_data and neither has ended
Overlap(a, b) ==
    /\ a # b
    /\ tasks[a].handler \in {"start", "download"} /\ tasks[a].pc \notin {"idle", "done"}
    /\ tasks[b].handler \in {"start", "download"} /\ tasks[b].pc \notin {"idle", "done"}
    /\ tasks[a].user # tasks[b].user

\* the log holds the update of user_id's latest log_user_data call
Kept(user_id) ==
    \E i \in DOMAIN LogOf(users_log) :
        /\ LogOf(users_log)[i].user_id = user_id
        /\ LogOf(users_log)[i].timestamp = history.stamps[user_id]

CanRun(b) == ENABLED (NextConcurrent /\ tasks'[b] # tasks[b])

\* the event loop can dispatch the next update
CanDispatch == ENABLED (NextConcurrent /\ updates' = updates + 1)

\* C16: while the handler in slot a is inside the media lookup or the media
\* download, every other handler that has not ended can take its next step,
\* and an update that arrives can be dispatched to a free slot
C16_HungProviderStallsOne ==
    \A a \in Tasks :
        Blocked(a) =>
            /\ \A b \in Tasks \ {a} : tasks[b].pc \notin {"idle", "done"} => CanRun(b)
            /\ (FreeSlots # {} /\ updates < MaxOverlap) => CanDispatch

\* outside such a call the event loop does run the other handlers and does
\* dispatch: a stall is the call's doing
RunsWhenNotBlocked ==
    Running =>
        /\ \A b \in Tasks : tasks[b].pc \notin {"idle", "done"} => CanRun(b)
        /\ (FreeSlots # {} /\ updates < MaxOverlap) => CanDispatch

(***************************************************************************)
(* C17: two download requests from the same chat that are handled          *)
(* concurrently do not affect each other through the temp file: between    *)
(* the moment one request creates its temp file and the end of that        *)
(* request's upload, the other request neither overwrites nor removes that *)
(* file, and a failure in one request does not cause the other to fail.    *)
(***************************************************************************)
\* two downloads of one chat overlap, and the one in slot a has created its
\* temp file and is awaiting its upload
Uploading(a, b) ==
    /\ a # b
    /\ tasks[a].handler = "download" /\ tasks[a].pc = "upload"
    /\ tasks[b].handler = "download" /\ tasks[b].pc \notin {"idle", "done"}
    /\ tasks[a].chat_id = tasks[b].chat_id

\* the step is one of the download in slot b, and it writes the file `name`
Writes(b, name) ==
    /\ tasks[b].pc = "get" /\ tasks'[b].made_file
    /\ FileOf(tasks[b]) = name

\* the step is one of the download in slot b, and it removes the file `name`
Removes(b, name) ==
    /\ tasks'[b] # tasks[b]
    /\ name \in temp_files /\ name \notin temp_files'

\* C17: while a download awaits its upload, no step of another download of
\* the same chat writes or removes the temp file it created
C17_TempFileIsolated ==
    [][\A a, b \in Tasks :
          Uploading(a, b) => /\ ~Writes(b, FileOf(tasks[a]))
                             /\ ~Removes(b, FileOf(tasks[a]))]_vars

(***************************************************************************)
(* C18: across any sequence and any interleaving of start handler          *)
(* invocations by any users, the admin confirmation reply is sent at most  *)
(* once, and only to the user whose identifier is the stored admin         *)
(* identifier afterwards; no user is told they are admin while get_admin   *)
(* returns someone else or none.                                           *)
(***************************************************************************)
\* user_id is the identifier admin.json holds
StoredAdmin(user_id) == admin_file # NoFile /\ admin_file[1].admin_id = user_id

\* C18: the confirmation was delivered at most once over all the invocations
\* so far, every user it was delivered to or is being sent to is the stored
\* admin, and at most one invocation ever gets to send it
C18_AdminToldOnce ==
    /\ Len(history.confirmed) <= 1
    /\ \A i \in DOMAIN history.confirmed : StoredAdmin(history.confirmed[i])
    /\ \A t \in Tasks :
            (tasks[t].pc = "reply_admin" \/ "admin_set" \in tasks[t].replies)
                => /\ tasks[t].handler = "start"
                   /\ StoredAdmin(tasks[t].user)
    /\ Cardinality({t \in Tasks : tasks[t].pc = "reply_admin"}) + Len(history.confirmed) <= 1

\* two start invocations by different users overlapped: one was told it is the
\* admin, the other got the welcome alone
C18_Witness ==
    \E a, b \in Tasks :
        /\ tasks[a].handler = "start" /\ tasks[b].handler = "start"
        /\ tasks[a].user # tasks[b].user
        /\ tasks[a].replies = {"admin_set", "welcome"}
        /\ tasks[b].replies = {"welcome"}
        /\ history.confirmed = <<tasks[a].user>>

(***************************************************************************)
(* C19: for every download request that gets past URL validation and whose *)
(* replies can be delivered, the progress message ends in exactly one      *)
(* final state that matches the outcome: it is deleted if and only if the  *)
(* media upload succeeded, and otherwise it is edited to a failure text.   *)
(* The failed-to-send text is never shown for a request whose media upload *)
(* succeeded.                                                              *)
(***************************************************************************)
\* C19: a download that passed validation and ended without a failed reply
\* or edit has its progress message deleted exactly when its upload
\* succeeded, and showing a failure text otherwise; the failed-to-send text
\* is on no progress message of a download whose upload succeeded
C19_ProgressMatchesOutcome ==
    \A t \in Tasks :
        (tasks[t].handler = "download" /\ tasks[t].valid) =>
            /\ (tasks[t].pc = "done" /\ ~tasks[t].raised) =>
                    /\ tasks[t].progress = "deleted" <=> tasks[t].uploaded # "none"
                    /\ tasks[t].uploaded = "none" =>
                            tasks[t].progress \in {"fetch_failed", "send_failed"}
            /\ tasks[t].uploaded # "none" => tasks[t].progress # "send_failed"

============================================================================
